---- MODULE Spec2Model ----
(***************************************************************************)
(* Dubu_AI_Snake: the search-and-scoring core (safety_logic.py,            *)
(* state_perception.py, path_planning.py, cost_function.py), the agent     *)
(* that selects a move with it (policy_agent.py), and the environment      *)
(* whose snapshot they read (snake_env.py).                                *)
(*                                                                         *)
(* A cell is <<x, y>>.  A body is a sequence of cells, head first.         *)
(* A Direction is a member of one of the repository's Direction enums:     *)
(* every module declares its own class, so a member is identified by the   *)
(* class that declares it and by its name.                                 *)
(***************************************************************************)
EXTENDS Integers, Sequences, FiniteSets, TLC

VARIABLES size, snake, food, direction, score, done, call

\* what SnakeEnv.get_state() reports, and the board size
snapshot == <<size, snake, food, direction, score, done>>
vars == <<size, snake, food, direction, score, done, call>>

\* ---------------------------------------------------------------- bounds
MaxSize == 3
MaxLen == 3
MaxSnake == 5
MaxSteps == 2
MaxScore == 2
MaxBoard == 7
MaxFreshScore == 1

\* ------------------------------------------------------------- Direction
DirNames == <<"UP", "DOWN", "LEFT", "RIGHT">>

\* class Direction(Enum): the member's value, a unit delta
DirValue(d) ==
    CASE d.name = "UP" -> <<0, -1>>
      [] d.name = "DOWN" -> <<0, 1>>
      [] d.name = "LEFT" -> <<-1, 0>>
      [] d.name = "RIGHT" -> <<1, 0>>

\* the members of the Direction enum declared by module cls, in declaration order
DirectionOf(cls) == [i \in 1..4 |-> [cls |-> cls, name |-> DirNames[i]]]

EnvDirections == {DirectionOf("snake_env")[i] : i \in 1..4}
CostDirections == {DirectionOf("cost_function")[i] : i \in 1..4}

\* Enum members compare by identity: equal only within one class
DirEq(a, b) == a.cls = b.cls /\ a.name = b.name

\* ------------------------------------------------------------------ grid
\* faulty variant: the far edge is taken to be on the board
InBounds_inclusive(pos, sz) == 0 <= pos[1] /\ pos[1] <= sz /\ 0 <= pos[2] /\ pos[2] <= sz

InBounds(pos, sz) == 0 <= pos[1] /\ pos[1] < sz /\ 0 <= pos[2] /\ pos[2] < sz

Cells(sz) == (0..(sz - 1)) \X (0..(sz - 1))

\* the board with a margin of one cell around it
CellsAround(sz) == ((-1)..sz) \X ((-1)..sz)

Step(pos, d) == <<pos[1] + DirValue(d)[1], pos[2] + DirValue(d)[2]>>

SeqToSet(s) == {s[i] : i \in 1..Len(s)}

\* faulty variant: the last two cells are dropped
AllButLast_two(s) == IF Len(s) <= 1 THEN <<>> ELSE SubSeq(s, 1, Len(s) - 2)

\* list(snake_body)[:-1]
AllButLast(s) == IF Len(s) = 0 THEN <<>> ELSE SubSeq(s, 1, Len(s) - 1)

\* ----------------------------------------------------------- is_collision
\* a collision test that knows the walls only
is_collision_walls_only(pos, sz, snake_body) ==
    ~InBounds(pos, sz)

\* faulty variant: the tail counts as a body cell too
is_collision_with_tail(pos, sz, snake_body) ==
    \/ ~InBounds(pos, sz)
    \/ pos \in SeqToSet(snake_body)

is_collision(pos, sz, snake_body) ==
    IF ~InBounds(pos, sz) THEN TRUE
    ELSE IF pos \in SeqToSet(AllButLast(snake_body)) THEN TRUE
    ELSE FALSE

\* ------------------------------------------------------------- snapshots
\* bodies: every sequence of at most MaxLen in-bounds cells (repeats allowed)
Bodies(sz) == UNION {[1..n -> Cells(sz)] : n \in 0..MaxLen}

NoCall == [op |-> "none"]

InitCollision ==
    /\ size \in 1..MaxSize
    /\ snake \in Bodies(size)
    /\ food = <<0, 0>>
    /\ direction = DirectionOf("snake_env")[1]
    /\ score = 0
    /\ done = FALSE
    /\ call = NoCall

\* the core is synchronous: one call at a time, whose result the caller
\* reads before the next call is made
Idle == call.op = "none"

\* a call that never ends never returns
Running == call.op = "step" /\ call.outcome = "running"

Return ==
    /\ ~Idle
    /\ ~Running
    /\ call' = NoCall
    /\ UNCHANGED snapshot

CallIsCollision ==
    /\ Idle
    /\ \E pos \in CellsAround(size) :
          call' = [op |-> "is_collision", pos |-> pos,
                   result |-> is_collision(pos, size, snake)]
    /\ UNCHANGED snapshot

NextCollision == CallIsCollision \/ Return

SpecCollision == InitCollision /\ [][NextCollision]_vars

\* ---------------------------------------------------- path_planning.py
Abs(n) == IF n < 0 THEN -n ELSE n

\* Manhattan distance
heuristic(a, b) == Abs(a[1] - b[1]) + Abs(a[2] - b[2])

\* tuple comparison of cells, as heapq compares them
CellLess(a, b) == a[1] < b[1] \/ (a[1] = b[1] /\ a[2] < b[2])

\* tuple comparison of two heap entries (f_cost, g_cost, node, path).  A node
\* is pushed only with a g_cost strictly below its recorded one, so no two
\* entries agree on (g_cost, node) and the path never decides the order.
EntryLess(e1, e2) ==
    \/ e1.f < e2.f
    \/ e1.f = e2.f /\ e1.g < e2.g
    \/ e1.f = e2.f /\ e1.g = e2.g /\ CellLess(e1.node, e2.node)

\* faulty variant: the heap gives its greatest entry
HeapMin_largest(open_set) ==
    CHOOSE e \in open_set : \A o \in open_set \ {e} : EntryLess(o, e)

\* heapq.heappop: the least entry
HeapMin(open_set) == CHOOSE e \in open_set : \A o \in open_set \ {e} : EntryLess(e, o)

\* [d.value for d in Direction]: the four deltas in declaration order (the
\* Direction classes of all modules declare the same members and values)
DirValues == [i \in 1..4 |-> DirValue(DirectionOf("path_planning")[i])]

\* the four neighbours of a cell, in that order
NeighborsOf(pos) ==
    [i \in 1..4 |-> <<pos[1] + DirValues[i][1], pos[2] + DirValues[i][2]>>]

\* faulty variants: the goal stays an obstacle; the body is no obstacle
a_star_obstacles_keep_goal(start, goal, snake_body) ==
    SeqToSet(snake_body) \ {start}

a_star_obstacles_none(start, goal, snake_body) == {}

\* obstacles = set(snake_body) minus the goal and the start
a_star_obstacles(start, goal, snake_body) ==
    (SeqToSet(snake_body) \ {goal}) \ {start}

NoPath == [none |-> TRUE, path |-> <<>>]

\* the while loop of a_star_search; g_costs is a function on the cells seen
RECURSIVE a_star_loop(_, _, _, _, _)
a_star_loop(open_set, g_costs, goal, sz, obstacles) ==
    IF open_set = {} THEN NoPath
    ELSE
      LET cur == HeapMin(open_set)
          rest == open_set \ {cur}
      IN IF cur.node = goal
         THEN [none |-> FALSE, path |-> Append(cur.path, cur.node)]
         ELSE
           LET new_g == cur.g + 1
               relaxed == {n \in SeqToSet(NeighborsOf(cur.node)) :
                              /\ InBounds(n, sz)
                              /\ n \notin obstacles
                              /\ (n \notin DOMAIN g_costs \/ new_g < g_costs[n])}
               pushed == {[f |-> new_g + heuristic(n, goal), g |-> new_g,
                           node |-> n, path |-> Append(cur.path, cur.node)] :
                          n \in relaxed}
               g2 == [n \in DOMAIN g_costs \cup relaxed |->
                         IF n \in relaxed THEN new_g ELSE g_costs[n]]
           IN a_star_loop(rest \cup pushed, g2, goal, sz, obstacles)

a_star_search(start, goal, sz, snake_body) ==
    a_star_loop({[f |-> 0, g |-> 0, node |-> start, path |-> <<>>]},
                [n \in {start} |-> 0], goal, sz,
                a_star_obstacles(start, goal, snake_body))

\* ------------------------------------------------- state_perception.py
\* the neighbours a BFS appends for one dequeued cell, in Direction order
RECURSIVE bfs_expand(_, _, _, _, _, _)
bfs_expand(i, cur, q, visited, sz, obstacles) ==
    IF i > 4 THEN [q |-> q, visited |-> visited]
    ELSE LET next_pos == NeighborsOf(cur)[i]
         IN IF InBounds(next_pos, sz) /\ next_pos \notin visited
                 /\ next_pos \notin obstacles
            THEN bfs_expand(i + 1, cur, Append(q, next_pos),
                            visited \cup {next_pos}, sz, obstacles)
            ELSE bfs_expand(i + 1, cur, q, visited, sz, obstacles)

\* the while loop of has_path_to_target_bfs (the path each queue entry
\* carries is never read and is left out)
RECURSIVE has_path_loop(_, _, _, _, _)
has_path_loop(q, visited, target_pos, sz, obstacles) ==
    IF q = <<>> THEN FALSE
    ELSE IF Head(q) = target_pos THEN TRUE
    ELSE LET e == bfs_expand(1, Head(q), Tail(q), visited, sz, obstacles)
         IN has_path_loop(e.q, e.visited, target_pos, sz, obstacles)

\* faulty variant: a target on the body stays an obstacle
has_path_keep_target(start_pos, target_pos, sz, snake_body) ==
    has_path_loop(<<start_pos>>, {start_pos}, target_pos, sz,
                  SeqToSet(snake_body) \ {start_pos})

has_path_to_target_bfs(start_pos, target_pos, sz, snake_body) ==
    has_path_loop(<<start_pos>>, {start_pos}, target_pos, sz,
                  (SeqToSet(snake_body) \ {target_pos}) \ {start_pos})

\* ----------------------------------------------------- search harness
\* start cells: the board and the four cells just outside its first corner
\* and last corner; goals: the board and one cell outside it
SearchStarts(sz) ==
    Cells(sz) \cup {<<-1, 0>>, <<0, -1>>, <<sz, sz - 1>>, <<sz - 1, sz>>}

SearchGoals(sz) == Cells(sz) \cup {<<sz, 0>>}

\* a_star_search, has_path_to_target_bfs and find_reachable_areas_bfs read
\* the body only through set(snake_body): one list per set of cells, its
\* cells in increasing order, stands for every list with those cells
ObstacleLists(sz) ==
    {s \in Bodies(sz) : \A i \in 1..(Len(s) - 1) : CellLess(s[i], s[i + 1])}

InitSearch ==
    /\ size \in 1..MaxSize
    /\ snake \in ObstacleLists(size)
    /\ food = <<0, 0>>
    /\ direction = DirectionOf("snake_env")[1]
    /\ score = 0
    /\ done = FALSE
    /\ call = NoCall

CallAStar ==
    /\ Idle
    /\ \E start \in SearchStarts(size), goal \in SearchGoals(size) :
          call' = [op |-> "a_star_search", start |-> start, goal |-> goal,
                   result |-> a_star_search(start, goal, size, snake)]
    /\ UNCHANGED snapshot

NextSearch == CallAStar \/ Return

SpecSearch == InitSearch /\ [][NextSearch]_vars

CallHasPath ==
    /\ Idle
    /\ \E start \in SearchStarts(size), target \in SearchGoals(size) :
          call' = [op |-> "has_path_to_target_bfs", start |-> start,
                   target |-> target,
                   result |-> has_path_to_target_bfs(start, target, size, snake)]
    /\ UNCHANGED snapshot

NextPath == CallHasPath \/ Return

SpecPath == InitSearch /\ [][NextPath]_vars

\* faulty variant: food_pos stays an obstacle
reach_obstacles_keep_food(snake_body, food_pos) == SeqToSet(snake_body)

\* find_reachable_areas_bfs: obstacles = set(snake_body) minus food_pos
reach_obstacles(snake_body, food_pos) == SeqToSet(snake_body) \ {food_pos}

\* the while loop of find_reachable_areas_bfs
RECURSIVE reach_loop(_, _, _, _, _, _)
reach_loop(q, visited, reachable_count, reachable_cells, sz, obstacles) ==
    IF q = <<>> THEN [count |-> reachable_count, cells |-> reachable_cells]
    ELSE LET e == bfs_expand(1, Head(q), Tail(q), visited, sz, obstacles)
         IN reach_loop(e.q, e.visited, reachable_count + 1,
                       Append(reachable_cells, Head(q)), sz, obstacles)

\* state_perception.find_reachable_areas_bfs and its verbatim copy in
\* safety_logic.py
find_reachable_areas_bfs(start_pos, sz, snake_body, food_pos) ==
    reach_loop(<<start_pos>>, {start_pos}, 0, <<>>, sz,
               reach_obstacles(snake_body, food_pos))

InitReach ==
    /\ size \in 1..MaxSize
    /\ snake \in ObstacleLists(size)
    /\ food = <<0, 0>>
    /\ direction = DirectionOf("snake_env")[1]
    /\ score = 0
    /\ done = FALSE
    /\ call = NoCall

\* exempt cells: each body cell, and two cells that are no obstacle unless
\* the body holds them (removing a cell that is no obstacle changes nothing)
ReachExempts(sz, body) == SeqToSet(body) \cup {<<0, 0>>, <<sz, 0>>}

CallFindReachable ==
    /\ Idle
    /\ \E start \in SearchStarts(size), exempt \in ReachExempts(size, snake) :
          call' = [op |-> "find_reachable_areas_bfs", start |-> start,
                   food_pos |-> exempt,
                   result |-> find_reachable_areas_bfs(start, size, snake, exempt)]
    /\ UNCHANGED snapshot

NextReach == CallFindReachable \/ Return

SpecReach == InitReach /\ [][NextReach]_vars

\* ----------------------------------------------------- cost_function.py
\* opposite_directions: a dict keyed by the members of cost_function's own
\* Direction class
opposite_directions(d) ==
    CASE d.name = "UP" -> [cls |-> "cost_function", name |-> "DOWN"]
      [] d.name = "DOWN" -> [cls |-> "cost_function", name |-> "UP"]
      [] d.name = "LEFT" -> [cls |-> "cost_function", name |-> "RIGHT"]
      [] d.name = "RIGHT" -> [cls |-> "cost_function", name |-> "LEFT"]

\* opposite_directions.get(current_dir) == next_dir: the lookup finds a key
\* only when current_dir is a member of that class (members of another
\* class hash alike but are not equal), and .get gives None otherwise
is_opposite(current_dir, next_dir) ==
    /\ current_dir.cls = "cost_function"
    /\ DirEq(opposite_directions(current_dir), next_dir)

turn_cost(current_dir, next_dir) ==
    IF DirEq(current_dir, next_dir) THEN 0
    ELSE IF is_opposite(current_dir, next_dir) THEN 1000000
    ELSE 1

\* the names bound in cost_function's module namespace that the function
\* reads: List, Tuple, Enum, Direction and turn_cost are; deque is not
\* (the module imports only typing and enum)
CostModuleBinds(name) == name \in {"List", "Tuple", "Enum", "Direction", "turn_cost"}

\* lines 73-81: the cost after the path-to-food term
path_term(path_to_food) ==
    IF ~path_to_food.none
    THEN Len(path_to_food.path)
         + (IF Len(path_to_food.path) = 1 THEN -100 ELSE 0)
    ELSE 1000

\* the isolation term without its two path tests: the reachable count alone
\* decides
isolation_term_count_only(next_head, snake_body, food_position, board_size) ==
    LET pushed == <<next_head>> \o snake_body
        temp_snake_body == IF next_head # food_position
                           THEN AllButLast(pushed) ELSE pushed
    IN IF find_reachable_areas_bfs(next_head, board_size, temp_snake_body,
                                   food_position).count
            < Len(temp_snake_body) * 2
       THEN 500 ELSE 0

\* lines 91-106: the isolation term on the hypothetical post-move body
isolation_term(next_head, snake_body, food_position, board_size) ==
    LET pushed == <<next_head>> \o snake_body
        temp_snake_body == IF next_head # food_position
                           THEN AllButLast(pushed) ELSE pushed
        next_tail == temp_snake_body[Len(temp_snake_body)]
    IN IF /\ a_star_search(next_head, food_position, board_size, temp_snake_body).none
          /\ a_star_search(next_head, next_tail, board_size, temp_snake_body).none
       THEN IF find_reachable_areas_bfs(next_head, board_size, temp_snake_body,
                                        food_position).count
               < Len(temp_snake_body) * 2
            THEN 500 ELSE 0
       ELSE 0

\* calculate_action_cost.  kind is "inf" (float('inf') returned), "value"
\* (a finite cost returned) or "raise" (an exception leaves the call; cost
\* is then the local cost when it was raised); turn_term is what line 71
\* added to the cost
calculate_action_cost(current_head, current_direction, proposed_action, snake_body, food_position, board_size) ==
    LET next_head == Step(current_head, proposed_action)
    IN IF is_collision(next_head, board_size, snake_body)
       THEN [kind |-> "inf", cost |-> 0, turn_term |-> 0, exc |-> "",
             next_head |-> next_head]
       ELSE
         LET turn == turn_cost(current_direction, proposed_action) * 5
             path_to_food == a_star_search(next_head, food_position, board_size,
                                           snake_body)
             cost3 == turn + path_term(path_to_food)
         IN IF ~CostModuleBinds("deque")
            THEN [kind |-> "raise", cost |-> cost3, turn_term |-> turn,
                  exc |-> "NameError", next_head |-> next_head]
            ELSE [kind |-> "value",
                  cost |-> cost3 + isolation_term(next_head, snake_body,
                                                  food_position, board_size),
                  turn_term |-> turn, exc |-> "", next_head |-> next_head]

\* the snapshots the cost model is called on: a non-empty body, a goal on
\* the board, a current direction of the environment's or of the cost
\* module's own Direction class
InitCost ==
    /\ size \in 1..MaxSize
    /\ snake \in Bodies(size) \ {<<>>}
    /\ food \in Cells(size)
    /\ direction \in EnvDirections \cup CostDirections
    /\ score = 0
    /\ done = FALSE
    /\ call = NoCall

\* the candidate is a member of the same class as the current direction,
\* as in every caller (policy_agent.py passes the environment's members)
CallCalculateActionCost ==
    /\ Idle
    /\ \E i \in 1..4 :
          LET proposed_action == DirectionOf(direction.cls)[i]
          IN call' = [op |-> "calculate_action_cost",
                      proposed_action |-> proposed_action,
                      turn |-> turn_cost(direction, proposed_action),
                      result |-> calculate_action_cost(snake[1], direction,
                                     proposed_action, snake, food, size)]
    /\ UNCHANGED snapshot

NextCost == CallCalculateActionCost \/ Return

SpecCost == InitCost /\ [][NextCost]_vars

\* ------------------------------------------------------ policy_agent.py
\* the value choose_best_action gives back: kind is "value" (a Direction
\* returned in action) or "raise" (an exception leaves the call)
NoDirection == [cls |-> "none", name |-> "none"]

\* get_safe_actions: the members of snake_env.Direction, in declaration
\* order, whose next head is_collision rejects
get_safe_actions(current_head, snake_body, board_size) ==
    SelectSeq(DirectionOf("snake_env"),
              LAMBDA action : ~is_collision(Step(current_head, action),
                                            board_size, snake_body))

\* faulty variant: the fallback gives the first member of Direction
choose_fallback_first_member(current_head, current_direction, snake_body, board_size) ==
    DirectionOf("snake_env")[1]

\* lines 37-54: no safe action; the first member whose next head is no
\* collision, else current_direction
choose_fallback(current_head, current_direction, snake_body, board_size) ==
    LET free == SelectSeq(DirectionOf("snake_env"),
                          LAMBDA action : ~is_collision(Step(current_head, action),
                                                        board_size, snake_body))
    IN IF free # <<>> THEN free[1] ELSE current_direction

\* the order of the sort key of line 76: float('inf') is above every cost
cost_le(a, b) ==
    IF a.kind = "inf" THEN b.kind = "inf"
    ELSE b.kind = "inf" \/ a.cost <= b.cost

\* action_costs.sort(key=...)[0]: list.sort is stable, so the first entry
\* is the earliest one of least cost
sort_first(costs) ==
    CHOOSE i \in 1..Len(costs) :
        /\ \A j \in 1..Len(costs) : cost_le(costs[i], costs[j])
        /\ \A j \in 1..(i - 1) : ~cost_le(costs[j], costs[i])

\* choose_best_action: an exception of calculate_action_cost is not caught,
\* so the first one raised in the loop of lines 59-72 leaves the call
choose_best_action(current_head, current_direction, snake_body, food_position, board_size) ==
    LET possible_actions == get_safe_actions(current_head, snake_body, board_size)
    IN IF possible_actions = <<>>
       THEN [kind |-> "value", exc |-> "",
             action |-> choose_fallback(current_head, current_direction,
                                        snake_body, board_size)]
       ELSE
         LET costs == [i \in 1..Len(possible_actions) |->
                          calculate_action_cost(current_head, current_direction,
                              possible_actions[i], snake_body, food_position,
                              board_size)]
             raised == {i \in 1..Len(costs) : costs[i].kind = "raise"}
         IN IF raised # {}
            THEN [kind |-> "raise", action |-> NoDirection,
                  exc |-> costs[CHOOSE i \in raised :
                                    \A j \in raised : i <= j].exc]
            ELSE [kind |-> "value", exc |-> "",
                  action |-> possible_actions[sort_first(costs)]]

\* ------------------------------------------------------ policy harness
\* snake bodies as the game makes them: distinct cells, each next to the
\* one before it, head first, at most MaxSnake cells
RECURSIVE SnakesOfLen(_, _)
SnakesOfLen(sz, n) ==
    IF n = 1 THEN {<<c>> : c \in Cells(sz)}
    ELSE UNION {{Append(s, c) : c \in {nb \in SeqToSet(NeighborsOf(s[Len(s)])) :
                                          InBounds(nb, sz) /\ nb \notin SeqToSet(s)}} :
                s \in SnakesOfLen(sz, n - 1)}

Snakes(sz) == UNION {SnakesOfLen(sz, n) : n \in 1..MaxSnake}

\* the snapshots the agent is called on: a snake on the board, a goal on
\* the board, a current direction of the environment
InitPolicy ==
    /\ size \in 1..MaxSize
    /\ snake \in Snakes(size)
    /\ food \in Cells(size)
    /\ direction \in EnvDirections
    /\ score = 0
    /\ done = FALSE
    /\ call = NoCall

CallGetSafeActions ==
    /\ Idle
    /\ call' = [op |-> "get_safe_actions",
                result |-> get_safe_actions(snake[1], snake, size)]
    /\ UNCHANGED snapshot

\* the callers pass the head of the body, the environment's direction and
\* the environment's food
CallChooseBestAction ==
    /\ Idle
    /\ call' = [op |-> "choose_best_action",
                result |-> choose_best_action(snake[1], direction, snake, food, size)]
    /\ UNCHANGED snapshot

NextPolicy ==
    CallGetSafeActions \/ CallChooseBestAction \/ CallCalculateActionCost \/ Return

SpecPolicy == InitPolicy /\ [][NextPolicy]_vars

\* ---------------------------------------------------- is_future_isolated
\* faulty variant: isolated as soon as the food is out of reach
is_future_isolated_food_only(head_pos, food_pos, sz, snake_body, tail_pos) ==
    ~has_path_to_target_bfs(head_pos, food_pos, sz, snake_body)

\* safety_logic.is_future_isolated, over safety_logic's verbatim copy of
\* has_path_to_target_bfs
is_future_isolated(head_pos, food_pos, sz, snake_body, tail_pos) ==
    IF has_path_to_target_bfs(head_pos, food_pos, sz, snake_body) THEN FALSE
    ELSE IF has_path_to_target_bfs(head_pos, tail_pos, sz, snake_body) THEN FALSE
    ELSE TRUE

\* a snake on the board; the food is any cell of the board or one cell
\* outside it
InitIsolated ==
    /\ size \in 1..MaxSize
    /\ snake \in Snakes(size)
    /\ food \in SearchGoals(size)
    /\ direction = DirectionOf("snake_env")[1]
    /\ score = 0
    /\ done = FALSE
    /\ call = NoCall

\* called with the head and the tail of the body, as at safety_logic.py:243
CallIsFutureIsolated ==
    /\ Idle
    /\ call' = [op |-> "is_future_isolated",
                result |-> is_future_isolated(snake[1], food, size, snake,
                                              snake[Len(snake)])]
    /\ UNCHANGED snapshot

NextIsolated == CallIsFutureIsolated \/ Return

SpecIsolated == InitIsolated /\ [][NextIsolated]_vars

\* ---------------------------------------------------- invalid snapshots
\* the snapshots section 7 of the specification calls invalid: a board
\* size of zero or less, an empty body, a goal off the board
InitInvalid ==
    /\ \/ /\ size \in (-1)..0
          /\ snake \in {<<>>, <<<<0, 0>>>>}
          /\ food = <<0, 0>>
       \/ /\ size \in 1..MaxSize
          /\ snake = <<>>
          /\ food \in Cells(size)
       \/ /\ size \in 1..MaxSize
          /\ snake \in {<<c>> : c \in Cells(size)}
          /\ food \in CellsAround(size) \ Cells(size)
    /\ direction \in EnvDirections
    /\ score = 0
    /\ done = FALSE
    /\ call = NoCall

\* current_head is a parameter of its own: the head of the body, or with
\* an empty body the cell the caller names
HeadArg == IF snake = <<>> THEN <<0, 0>> ELSE snake[1]

CallCostWithHead ==
    /\ Idle
    /\ \E i \in 1..4 :
          LET proposed_action == DirectionOf("snake_env")[i]
          IN call' = [op |-> "calculate_action_cost",
                      proposed_action |-> proposed_action,
                      turn |-> turn_cost(direction, proposed_action),
                      result |-> calculate_action_cost(HeadArg, direction,
                                     proposed_action, snake, food, size)]
    /\ UNCHANGED snapshot

CallChooseWithHead ==
    /\ Idle
    /\ call' = [op |-> "choose_best_action",
                result |-> choose_best_action(HeadArg, direction, snake, food, size)]
    /\ UNCHANGED snapshot

NextInvalid ==
    \/ CallIsCollision
    \/ CallAStar
    \/ CallHasPath
    \/ CallFindReachable
    \/ CallCostWithHead
    \/ CallChooseWithHead
    \/ Return

SpecInvalid == InitInvalid /\ [][NextInvalid]_vars

\* ------------------------------------------------------ simulate_n_steps
\* Lists and deques are objects: heap maps the name of each one the call
\* can reach to its contents.  "initial_state" is the caller's list,
\* initial_state["snake_body"].
\* faulty variant: the new name is bound to the source object itself
deque_of_same_object(heap, name, src) == [obj |-> src, heap |-> heap]

\* name = deque(src): a new object holding a copy of src's contents
deque_of(heap, name, src) == [obj |-> name, heap |-> (name :> heap[src]) @@ heap]

appendleft(heap, obj, x) == [heap EXCEPT ![obj] = <<x>> \o @]

pop(heap, obj) == [heap EXCEPT ![obj] = AllButLast(@)]

\* temp_food_pos = None
None == <<>>

\* the loop of lines 163-197, from step i on (i counts from 0)
RECURSIVE sim_loop(_, _, _, _, _)
sim_loop(i, st, action_sequence, n_steps, board_size) ==
    IF i >= n_steps THEN st
    ELSE
      LET action == IF i < Len(action_sequence) THEN action_sequence[i + 1]
                    ELSE st.temp_direction
          temp_snake_body == st.heap[st.temp]
          new_head == Step(temp_snake_body[1], action)
      IN IF is_collision(new_head, board_size, temp_snake_body)
         THEN [st EXCEPT !.done_sim = TRUE, !.total_reward = @ - 100]
         ELSE
           LET pushed == appendleft(st.heap, st.temp, new_head)
               eaten == new_head = st.temp_food_pos
           IN sim_loop(i + 1,
                       [st EXCEPT
                           !.heap = IF eaten THEN pushed ELSE pop(pushed, st.temp),
                           !.temp_food_pos = IF eaten THEN None ELSE @,
                           !.total_reward = @ + (IF eaten THEN 10 ELSE 0) - 1,
                           !.temp_direction = action],
                       action_sequence, n_steps, board_size)

\* simulate_n_steps(initial_state, action_sequence, n_steps, env): env is
\* never read.  initial_body is the caller's list as the call leaves it.
simulate_n_steps(snake_body, current_direction, food_position, board_size, action_sequence, n_steps) ==
    LET h0 == [initial_state |-> snake_body]
        current_snake_body == deque_of(h0, "current_snake_body", "initial_state")
        temp_snake_body == deque_of(current_snake_body.heap, "temp_snake_body",
                                    current_snake_body.obj)
        st == sim_loop(0, [heap |-> temp_snake_body.heap,
                           temp |-> temp_snake_body.obj,
                           temp_direction |-> current_direction,
                           temp_food_pos |-> food_position,
                           total_reward |-> 0,
                           done_sim |-> FALSE],
                       action_sequence, n_steps, board_size)
    IN [final_state |-> [snake_body |-> st.heap[st.temp],
                         food_position |-> st.temp_food_pos,
                         direction |-> st.temp_direction,
                         board_size |-> board_size,
                         done |-> st.done_sim],
        total_reward |-> st.total_reward,
        done_sim |-> st.done_sim,
        initial_body |-> st.heap["initial_state"]]

\* snakes of at most MaxLen cells
ShortSnakes(sz) == UNION {SnakesOfLen(sz, n) : n \in 1..MaxLen}

\* a state of a game in progress: the direction is the one the head last
\* moved in (any, for a snake of one cell)
InitSim ==
    /\ size \in 1..MaxSize
    /\ snake \in ShortSnakes(size)
    /\ food \in Cells(size)
    /\ direction \in {d \in EnvDirections :
                        Len(snake) = 1 \/ Step(snake[2], d) = snake[1]}
    /\ score = 0
    /\ done = FALSE
    /\ call = NoCall

ActionSequences == UNION {[1..n -> EnvDirections] : n \in 0..MaxSteps}

\* the caller's list is what the call leaves in it; the call assigns to no
\* key of initial_state and to no attribute of the environment
CallSimulateNSteps ==
    /\ Idle
    /\ \E n_steps \in 0..MaxSteps :
       \E action_sequence \in {a \in ActionSequences : Len(a) <= n_steps} :
          LET r == simulate_n_steps(snake, direction, food, size,
                                    action_sequence, n_steps)
          IN /\ call' = [op |-> "simulate_n_steps", n_steps |-> n_steps,
                         action_sequence |-> action_sequence, result |-> r]
             /\ snake' = r.initial_body
    /\ UNCHANGED <<size, food, direction, score, done>>

NextSim ==
    \/ CallSimulateNSteps
    \/ CallIsCollision
    \/ CallCalculateActionCost
    \/ CallChooseBestAction
    \/ Return

SpecSim == InitSim /\ [][NextSim]_vars

\* ----------------------------------------------------------- snake_env.py
\* faulty variant: the first cell drawn is kept, on the snake or not
generate_food_any_cell(sz, body) == Cells(sz)

\* faulty variant: only the head is avoided
generate_food_off_head(sz, body) == Cells(sz) \ {body[1]}

\* _generate_food: a uniformly drawn cell of the board is drawn again until
\* it is not on the snake, so the call can return any cell of this set,
\* and never returns when the set is empty
generate_food(sz, body) == Cells(sz) \ SeqToSet(body)

\* what step hands back: outcome is "return", "raise" (ValueError) or
\* "running" (the call never ends)
StepResult(action_dir, outcome, reward, message) ==
    [op |-> "step", action |-> action_dir, outcome |-> outcome,
     reward |-> reward, message |-> message]

\* lines 63-68: the end of step, on the body and reward of the move
step_end(action_dir, reward) ==
    IF Len(snake') = size * size
    THEN /\ done' = TRUE
         /\ call' = StepResult(action_dir, "return", 100,
                               "Game completed successfully")
    ELSE /\ done' = done
         /\ call' = StepResult(action_dir, "return", reward, "")

\* SnakeEnv.step
step(action_dir) ==
    IF done
    THEN /\ call' = StepResult(action_dir, "raise", 0, "")
         /\ UNCHANGED snapshot
    ELSE
      LET new_head == Step(snake[1], action_dir)
      IN /\ direction' = action_dir
         /\ size' = size
         /\ IF ~InBounds(new_head, size)
            THEN /\ done' = TRUE
                 /\ call' = StepResult(action_dir, "return", -10, "Wall collision")
                 /\ UNCHANGED <<snake, food, score>>
            ELSE IF new_head \in SeqToSet(AllButLast(snake))
            THEN /\ done' = TRUE
                 /\ call' = StepResult(action_dir, "return", -10, "Self collision")
                 /\ UNCHANGED <<snake, food, score>>
            ELSE IF new_head = food
            THEN /\ snake' = <<new_head>> \o snake
                 /\ score' = score + 1
                 /\ IF generate_food(size, snake') = {}
                    THEN /\ food' = food
                         /\ done' = done
                         /\ call' = StepResult(action_dir, "running", 0, "")
                    ELSE /\ food' \in generate_food(size, snake')
                         /\ step_end(action_dir, 10)
            ELSE /\ snake' = <<new_head>> \o AllButLast(snake)
                 /\ UNCHANGED <<food, score>>
                 /\ step_end(action_dir, -1)

\* faulty variant: the score survives the reset
reset_keeps_score ==
    /\ snake' = <<<<5, 5>>, <<5, 6>>>>
    /\ direction' = DirectionOf("snake_env")[1]
    /\ food' \in generate_food(size, snake')
    /\ score' = score
    /\ done' = FALSE
    /\ size' = size
    /\ call' = [op |-> "reset"]

\* SnakeEnv.reset (and the state __init__ builds)
reset ==
    /\ snake' = <<<<5, 5>>, <<5, 6>>>>
    /\ direction' = DirectionOf("snake_env")[1]
    /\ food' \in generate_food(size, snake')
    /\ score' = 0
    /\ done' = FALSE
    /\ size' = size
    /\ call' = [op |-> "reset"]

\* a game in progress on a small board, as the tests set one up by
\* assigning snake, direction and food of a new SnakeEnv(size): the food
\* is off the snake and the board is not full
InitEnv ==
    /\ size \in 1..MaxSize
    /\ snake \in ShortSnakes(size)
    /\ food \in generate_food(size, snake)
    /\ direction \in {d \in EnvDirections :
                        Len(snake) = 1 \/ Step(snake[2], d) = snake[1]}
    /\ score = 0
    /\ done = FALSE
    /\ call = NoCall

\* the score is capped at MaxScore to keep the games finite
EnvStep ==
    /\ Idle
    /\ \E action_dir \in EnvDirections :
          /\ (Step(snake[1], action_dir) = food) => score < MaxScore
          /\ step(action_dir)

EnvReset ==
    /\ Idle
    /\ reset

NextEnv == EnvStep \/ EnvReset \/ Return

SpecEnv == InitEnv /\ [][NextEnv]_vars

\* ------------------------------------------------------------ closed loop
\* One tick of the closed loop: the policy reads the state of a game in
\* progress (get_state: body head first, food, direction, size), chooses with
\* choose_best_action, and the direction returned is applied with step.  An
\* exception of the policy leaves the tick before step is called, so the
\* environment is untouched.  No file of the repository runs this loop; it
\* is taken from the data flow the design document describes.
Tick ==
    /\ Idle
    /\ ~done
    /\ LET r == choose_best_action(snake[1], direction, snake, food, size)
       IN IF r.kind = "value"
          THEN /\ (Step(snake[1], r.action) = food) => score < MaxScore
               /\ step(r.action)
          ELSE /\ call' = [op |-> "choose_best_action", result |-> r]
               /\ UNCHANGED snapshot

\* the loop next to steps with any action (a player other than the policy),
\* which bring the game into the positions the policy meets
NextLoop == Tick \/ EnvStep \/ EnvReset \/ Return

SpecLoop == InitEnv /\ [][NextLoop]_vars

\* ------------------------------------------------------- fresh environment
\* SnakeEnv(size) as __init__ leaves it
InitialSnake == <<<<5, 5>>, <<5, 6>>>>

\* the board sizes up to MaxBoard on which the initial snake lies on the
\* board
FreshSizes == {sz \in 1..MaxBoard : SeqToSet(InitialSnake) \subseteq Cells(sz)}

InitFresh ==
    /\ size \in FreshSizes
    /\ snake = InitialSnake
    /\ direction = DirectionOf("snake_env")[1]
    /\ food \in generate_food(size, snake)
    /\ score = 0
    /\ done = FALSE
    /\ call = NoCall

\* a step of a fresh game; the score is capped at MaxFreshScore to keep the
\* games finite
FreshStep ==
    /\ Idle
    /\ \E action_dir \in EnvDirections :
          /\ (Step(snake[1], action_dir) = food) => score < MaxFreshScore
          /\ step(action_dir)

NextFresh == FreshStep \/ EnvReset \/ Return

SpecFresh == InitFresh /\ [][NextFresh]_vars

\* ------------------------------------------------- reference searches
\* independent of the code: set-based flood fill and layered BFS
Adjacent(a, b) == Abs(a[1] - b[1]) + Abs(a[2] - b[2]) = 1

Around(c) == {<<c[1], c[2] - 1>>, <<c[1], c[2] + 1>>, <<c[1] - 1, c[2]>>, <<c[1] + 1, c[2]>>}

RECURSIVE RefFlood(_, _, _)
RefFlood(frontier, reached, open) ==
    LET more == (UNION {Around(c) : c \in frontier} \cap open) \ reached
    IN IF more = {} THEN reached ELSE RefFlood(more, reached \cup more, open)

\* the cells a flood fill from start reaches over the in-bounds cells that
\* are not blocked; start itself always counts
RefReachable(start, sz, blocked) ==
    RefFlood({start}, {start}, Cells(sz) \ blocked)

RECURSIVE RefLayers(_, _, _, _, _)
RefLayers(frontier, seen, goal, open, d) ==
    IF goal \in frontier THEN d
    ELSE IF frontier = {} THEN -1
    ELSE LET more == (UNION {Around(c) : c \in frontier} \cap open) \ seen
         IN RefLayers(more, seen \cup more, goal, open, d + 1)

\* the least number of steps from start to goal, -1 when there is none
RefDistance(start, goal, sz, blocked) ==
    RefLayers({start}, {start}, goal, Cells(sz) \ blocked, 0)

\* body minus {start, goal}
RefBlocked(start, goal, body) == SeqToSet(body) \ {start, goal}

OppositeName(n) ==
    CASE n = "UP" -> "DOWN" [] n = "DOWN" -> "UP"
      [] n = "LEFT" -> "RIGHT" [] n = "RIGHT" -> "LEFT"

IsCostCall == call.op = "calculate_action_cost"

\* ------------------------------------------------------------------- C1
\* C1: calculate_action_cost returns +infinity if and only if
\* is_collision(head + delta(candidate), size, body) is true, and every
\* non-colliding candidate gets a finite cost.
C1_InfIffCollision ==
    IsCostCall =>
        LET hit == is_collision(Step(snake[1], call.proposed_action), size, snake)
        IN /\ call.result.kind = "inf" <=> hit
           /\ ~hit => call.result.kind = "value"

C3_AStarOptimal ==
    (call.op = "a_star_search" /\ ~call.result.none) =>
        Len(call.result.path) - 1
            = RefDistance(call.start, call.goal, size,
                          RefBlocked(call.start, call.goal, snake))

\* a path that had to go around the body: longer than the Manhattan distance
C3_Witness ==
    /\ call.op = "a_star_search"
    /\ ~call.result.none
    /\ Len(call.result.path) - 1 > heuristic(call.start, call.goal)
    /\ InBounds(call.start, size)

\* ------------------------------------------------------------------- C4
\* C4: a returned path starts at start and ends at goal, consecutive cells
\* differ by one unit step, every cell after the first is in bounds, and no
\* cell other than start and goal is a body cell.
C4_AStarPathValid ==
    (call.op = "a_star_search" /\ ~call.result.none) =>
        LET path == call.result.path
        IN /\ Len(path) >= 1
           /\ path[1] = call.start
           /\ path[Len(path)] = call.goal
           /\ \A i \in 1..(Len(path) - 1) : Adjacent(path[i], path[i + 1])
           /\ \A i \in 2..Len(path) : InBounds(path[i], size)
           /\ \A i \in 1..Len(path) :
                 path[i] \in SeqToSet(snake) => path[i] \in {call.start, call.goal}

\* a path of several steps from the head to the tail of a three-cell body
C4_Witness ==
    /\ call.op = "a_star_search"
    /\ ~call.result.none
    /\ Len(snake) = 3
    /\ Cardinality(SeqToSet(snake)) = 3
    /\ call.start = snake[1]
    /\ call.goal = snake[3]
    /\ Len(call.result.path) >= 4

C7_CountExcludesSnake ==
    ( /\ call.op = "find_reachable_areas_bfs"
      /\ Len(snake) >= 1
      /\ call.start = snake[1]
      /\ Cardinality(SeqToSet(snake)) = Len(snake)
      /\ call.food_pos \in Cells(size) \ SeqToSet(snake)
      /\ (Cells(size) \ SeqToSet(snake)) \subseteq SeqToSet(call.result.cells) )
    => call.result.count = size * size - Len(snake)

\* ------------------------------------------------------------------- C8
\* C8: for every pair (current direction, candidate), the environment's
\* Direction values included, turn_cost is 0 for the same direction, 1 for a
\* perpendicular one and 1000000 for the exact opposite, and the turn term
\* of the cost is 0, 5 and at least 1000000.
C8_TurnTable ==
    (IsCostCall /\ call.result.kind # "inf") =>
        LET cur == direction.name
            cand == call.proposed_action.name
        IN /\ cand = cur => (call.turn = 0 /\ call.result.turn_term = 0)
           /\ cand = OppositeName(cur) =>
                 (call.turn = 1000000 /\ call.result.turn_term >= 1000000)
           /\ (cand # cur /\ cand # OppositeName(cur)) =>
                 (call.turn = 1 /\ call.result.turn_term = 5)

\* ------------------------------------------------------------------- C9
\* C9: for a non-colliding candidate whose next head is the goal,
\* calculate_action_cost returns turn term + 1 - 100: -99 when the
\* candidate continues straight, -94 when it is a perpendicular turn.
C9_GoalCaptureCost ==
    (IsCostCall /\ call.result.kind # "inf" /\ call.result.next_head = food) =>
        LET cur == direction.name
            cand == call.proposed_action.name
        IN /\ call.result.kind = "value"
           /\ call.result.cost = call.result.turn_term + 1 - 100
           /\ cand = cur => call.result.cost = -99
           /\ (cand # cur /\ cand # OppositeName(cur)) => call.result.cost = -94

\* ------------------------------------------------------------------ C10
\* C10: for a non-colliding candidate whose next head is not the goal, with
\* a path from the next head to the goal and no isolation penalty, the cost
\* returned is turn term + len(path) - 1, the number of steps of the
\* shortest path from the next head to the goal.
C10_PathTermIsStepCount ==
    ( /\ IsCostCall
      /\ call.result.kind # "inf"
      /\ call.result.next_head # food
      /\ ~a_star_search(call.result.next_head, food, size, snake).none
      /\ isolation_term(call.result.next_head, snake, food, size) = 0 )
    => /\ call.result.kind = "value"
       /\ call.result.cost
             = call.result.turn_term
               + Len(a_star_search(call.result.next_head, food, size, snake).path) - 1

\* ------------------------------------------------- policy reference
IsChooseCall == call.op = "choose_best_action"

\* the next cell of member i of Direction is on the board and is no body
\* cell other than the tail
RefSafe(i) ==
    LET n == Step(snake[1], DirectionOf("snake_env")[i])
    IN /\ InBounds(n, size)
       /\ \A k \in 1..(Len(snake) - 1) : snake[k] # n

RefSafeSet == {i \in 1..4 : RefSafe(i)}

\* the cost the cost model gives member i of Direction on the snapshot
RefCost(i) ==
    calculate_action_cost(snake[1], direction, DirectionOf("snake_env")[i],
                          snake, food, size)

\* ------------------------------------------------------------------ C11
\* C11: when at least one direction is safe, choose_best_action returns a
\* safe direction whose calculate_action_cost is least among the safe
\* directions, and among equal costs the first in the order UP, DOWN, LEFT,
\* RIGHT.
C11_MinCostSafe ==
    (IsChooseCall /\ RefSafeSet # {}) =>
        /\ call.result.kind = "value"
        /\ \E i \in RefSafeSet :
              /\ call.result.action = DirectionOf("snake_env")[i]
              /\ \A j \in RefSafeSet :
                    /\ RefCost(i).kind = "value"
                    /\ RefCost(j).kind = "value"
                    /\ RefCost(i).cost <= RefCost(j).cost
                    /\ RefCost(i).cost = RefCost(j).cost => i <= j

\* ------------------------------------------------------------------ C12
\* C12: get_safe_actions returns exactly the directions whose next cell is
\* in bounds and is not a non-tail body cell, and whenever that set is
\* non-empty choose_best_action returns one of its members.
C12_SafeSetAndMember ==
    /\ call.op = "get_safe_actions" =>
          /\ \A k \in 1..Len(call.result) :
                \E i \in RefSafeSet : call.result[k] = DirectionOf("snake_env")[i]
          /\ \A i \in RefSafeSet :
                \E k \in 1..Len(call.result) : call.result[k] = DirectionOf("snake_env")[i]
          /\ Len(call.result) = Cardinality(RefSafeSet)
    /\ (IsChooseCall /\ RefSafeSet # {}) =>
          /\ call.result.kind = "value"
          /\ \E i \in RefSafeSet : call.result.action = DirectionOf("snake_env")[i]

\* ------------------------------------------------------------------ C13
\* C13: when no direction is safe, choose_best_action returns exactly the
\* current direction it was given and raises nothing.
C13_TrappedKeepsDirection ==
    (IsChooseCall /\ RefSafeSet = {}) =>
        /\ call.result.kind = "value"
        /\ call.result.action = direction

\* the head is shut in by the snake's own body on a board where two of its
\* neighbours are on the board, and the direction returned is not the first
\* member of Direction
C13_Witness ==
    /\ IsChooseCall
    /\ RefSafeSet = {}
    /\ Cardinality({i \in 1..4 :
                      InBounds(Step(snake[1], DirectionOf("snake_env")[i]), size)}) >= 2
    /\ call.result.kind = "value"
    /\ call.result.action = direction
    /\ direction.name = "LEFT"

\* ------------------------------------------------------------------ C14
\* C14: if some safe direction moves the head onto the goal, the direction
\* choose_best_action returns moves the head onto the goal, whatever the
\* current direction is.
C14_TakesGoal ==
    (IsChooseCall /\ \E i \in RefSafeSet :
                        Step(snake[1], DirectionOf("snake_env")[i]) = food) =>
        /\ call.result.kind = "value"
        /\ Step(snake[1], call.result.action) = food

\* ------------------------------------------------------------------ C18
\* C18: on every valid snapshot calculate_action_cost completes and returns
\* a definite value (a finite cost, or +infinity for a colliding candidate)
\* and choose_best_action completes and returns a Direction; no call ends
\* in an exception.
C18_CallsComplete ==
    /\ IsCostCall => call.result.kind \in {"inf", "value"}
    /\ IsChooseCall =>
          /\ call.result.kind = "value"
          /\ call.result.action \in EnvDirections

C16_IsolatedIffNeither ==
    call.op = "is_future_isolated" =>
        LET head == snake[1]
            tail == snake[Len(snake)]
        IN call.result <=>
              /\ food \notin RefReachable(head, size, RefBlocked(head, food, snake))
              /\ tail \notin RefReachable(head, size, RefBlocked(head, tail, snake))

\* the head is shut in by the body: neither a free goal on the board nor
\* the tail can be reached
C16_Witness ==
    /\ call.op = "is_future_isolated"
    /\ call.result = TRUE
    /\ InBounds(food, size)
    /\ food \notin SeqToSet(snake)

\* ------------------------------------------------------------------ C17
\* C17: on an invalid snapshot (empty body, goal outside the board, board
\* size of zero or less) a core operation (is_collision, a_star_search, the
\* BFS functions, calculate_action_cost, choose_best_action) fails with an
\* explicit invalid-input error instead of returning a result.
InvalidCall ==
    /\ ~Idle
    /\ \/ size <= 0
       \/ snake = <<>>
       \/ call.op = "a_star_search" /\ ~InBounds(call.goal, size)
       \/ call.op = "has_path_to_target_bfs" /\ ~InBounds(call.target, size)
       \/ call.op = "find_reachable_areas_bfs" /\ ~InBounds(call.food_pos, size)
       \/ call.op \in {"calculate_action_cost", "choose_best_action"}
             /\ ~InBounds(food, size)

C17_InvalidInputRejected ==
    InvalidCall =>
        /\ call.op \in {"calculate_action_cost", "choose_best_action"}
        /\ call.result.kind = "raise"
        /\ call.result.exc = "InvalidInput"

EatingStep ==
    /\ Idle
    /\ call'.op = "step"
    /\ ~done
    /\ Step(snake[1], call'.action) = food
    /\ InBounds(food, size)
    /\ food \notin SeqToSet(AllButLast(snake))

StepTaken == Idle /\ ~done /\ call'.op = "step"

\* the cell the head of the step call moves to
StepTarget == Step(snake[1], call'.action)

C22_WallCollision ==
    [][(StepTaken /\ StepTarget \notin Cells(size)) =>
          /\ done'
          /\ call'.outcome = "return"
          /\ call'.reward = -10
          /\ call'.message = "Wall collision"
          /\ UNCHANGED <<snake, score, food>>
          /\ direction' = call'.action]_vars

\* a snake that has eaten once runs into the wall with a new direction
C22_Witness ==
    /\ call.op = "step"
    /\ call.message = "Wall collision"
    /\ call.reward = -10
    /\ done
    /\ score = 1
    /\ Len(snake) >= 2
    /\ Step(snake[2], call.action) # snake[1]
    /\ direction = call.action

\* ------------------------------------------------------------------ C23
\* C23: a simulated move that collides stops the simulation with done true
\* and is charged the collision penalty and the time penalty: a collision
\* after k moves, none of which ate, gives total reward -k - 101 (-101
\* when the first move collides).
SimOf(k) ==
    simulate_n_steps(snake, direction, food, size, call.action_sequence, k)

C23_CollisionReward ==
    (/\ call.op = "simulate_n_steps"
     /\ call.result.done_sim
     /\ call.result.final_state.food_position # None) =>
        LET k == CHOOSE j \in 0..(call.n_steps - 1) :
                    ~SimOf(j).done_sim /\ SimOf(j + 1).done_sim
        IN /\ call.result.final_state.done
           /\ call.result.total_reward = -k - 101

\* ------------------------------------------------------------------ C24
\* C24: for a non-colliding candidate, calculate_action_cost adds the
\* isolation penalty 500 if and only if, in the hypothetical post-move body
\* (next head pushed in front, tail removed unless the next head is the
\* goal), there is no path from the next head to the goal, none to the new
\* tail, and fewer cells reachable from the next head than twice the
\* length of that body.
RefHypothetical(next_head) ==
    IF next_head = food THEN <<next_head>> \o snake
    ELSE <<next_head>> \o AllButLast(snake)

RefIsolated(next_head) ==
    LET hyp == RefHypothetical(next_head)
        tail == hyp[Len(hyp)]
    IN /\ food \notin RefReachable(next_head, size, RefBlocked(next_head, food, hyp))
       /\ tail \notin RefReachable(next_head, size, RefBlocked(next_head, tail, hyp))
       /\ Cardinality(RefReachable(next_head, size, SeqToSet(hyp) \ {food}))
             < 2 * Len(hyp)

\* the path term of a candidate: the cells of a shortest path, less 100
\* when the next head is the goal, 1000 when there is no path
RefPathTerm(next_head) ==
    LET d == RefDistance(next_head, food, size, RefBlocked(next_head, food, snake))
    IN IF d = -1 THEN 1000 ELSE IF d = 0 THEN 1 - 100 ELSE d + 1

C24_IsolationPenalty ==
    (IsCostCall /\ call.result.kind # "inf") =>
        LET added == call.result.cost - call.result.turn_term
                         - RefPathTerm(call.result.next_head)
        IN /\ call.result.kind = "value"
           /\ RefIsolated(call.result.next_head) => added = 500
           /\ ~RefIsolated(call.result.next_head) => added = 0

\* ------------------------------------------------------------------ C25
\* C25: when a safe direction other than the exact opposite of the current
\* direction exists, choose_best_action returns a direction that is not
\* the exact opposite of the current direction.
C25_NoReversal ==
    (/\ IsChooseCall
     /\ \E i \in RefSafeSet : DirNames[i] # OppositeName(direction.name)) =>
        /\ call.result.kind = "value"
        /\ call.result.action.name # OppositeName(direction.name)


\* ------------------------------------------------------------------ C26
\* C26: at every non-colliding candidate, a path from the next head to the
\* goal in the current body is also a path in the hypothetical post-move
\* body, so the isolation penalty 500 is only due where the no-path penalty
\* 1000 is; the cost that lines 69-106 assemble is turn + len(path),
\* turn + 1 - 100, turn + 1000 or turn + 1500, and is never below -99.
CostAssembled ==
    IF call.result.kind = "value" THEN call.result.cost
    ELSE call.result.cost
           + isolation_term(call.result.next_head, snake, food, size)

CollisionMessages == {"Wall collision", "Self collision"}

C29_BoardFilled ==
    [][(EatingStep /\ Len(snake) + 1 = size * size) =>
          /\ call'.outcome = "return"
          /\ done'
          /\ call'.reward = 100
          /\ call'.message = "Game completed successfully"]_vars


\* ------------------------------------------------------------------ C30
\* C30: once done is true it stays true until reset: a step of a finished
\* game raises ValueError and leaves snake, direction, food, score and done
\* as they were; reset gives the snake [(5,5),(5,6)], direction UP, score 0
\* and done false.
ResetTaken == Idle /\ call'.op = "reset"

C30_DoneUntilReset ==
    [][/\ (done /\ ~ResetTaken) => done'
       /\ (done /\ Idle /\ call'.op = "step") =>
             /\ call'.outcome = "raise"
             /\ UNCHANGED <<snake, direction, food, score, done>>
       /\ ResetTaken =>
             /\ snake' = <<<<5, 5>>, <<5, 6>>>>
             /\ direction'.name = "UP"
             /\ score' = 0
             /\ ~done']_vars

C30_Witness ==
    /\ call.op = "step"
    /\ call.outcome = "raise"
    /\ done
    /\ score > 0
    /\ direction # call.action

====
